---- MODULE Spec2Model ----
(***************************************************************************)
(* A model of benchmark.py: the rate-governed dispatch engine              *)
(* (Throttler, Worker, run_benchmark), the trace fetch/merge pass          *)
(* (chunks, get_segments, get_stats) and the command line entry (cli with  *)
(* its validate_rate / validate_duration callbacks).                       *)
(*                                                                         *)
(* Each part has its own specification over the module's variables:        *)
(*   Spec      run_benchmark: one Throttler, NUM_WORKERS Workers, main     *)
(*   FairSpec  Spec with the fairness of the operating system's scheduler  *)
(*   FetchSpec get_stats: the batch fetch, the merge and the processing    *)
(*   CliSpec   cli: argument validation and the sequence of its steps      *)
(***************************************************************************)
EXTENDS Integers, Sequences, FiniteSets, TLC

(***************************************************************************)
(* Bounds of the model.  The source runs with _QUEUE_SIZE = 200,           *)
(* _NUM_WORKERS = 20 and _MAX_BATCH_SIZE = 5; the model scales them down.  *)
(***************************************************************************)
\* the largest queue capacity tried (the source's _QUEUE_SIZE is 200)
MaxQueueSize == 2
\* the number of Worker processes (the source's _NUM_WORKERS is 20)
NUM_WORKERS == 2
\* the number of Throttler loop iterations that fit in one run
MaxTicks == 3

VARIABLES
    queue_size,         \* the capacity run_benchmark gives the queue
    rate_queue,         \* the manager's queue: [items, maxsize]
    tpc,                \* Throttler: position in run()
    texit,              \* Throttler.exit (multiprocessing.Event)
    ticks,              \* Throttler loop iterations that reached full()
    dropped,            \* iterations that found the queue full
    wpc,                \* Worker w: position in run()
    wexit,              \* Worker.exit of each worker
    invocations,        \* self.invocations in the memory of the Worker process
    main_invocations,   \* self.invocations of the Worker object in the main process
    mpc,                \* run_benchmark: position
    idx,                \* run_benchmark: index of the for loops over workers
    total_invocations,  \* run_benchmark: the computed total (None before)
    manager_up,         \* the manager process serving the queue is alive
    enqueued,           \* tokens the Throttler has put on the queue
    popped,             \* tokens the Workers have taken off the queue
    issued,             \* invoke calls the Workers have made
    lost,               \* ticks whose put raised BrokenPipeError
    \* get_stats
    trace_ids,          \* the list get_trace_ids returned
    fpc,                \* get_stats: position
    pos,                \* chunks: the index i of the next batch
    segments,           \* get_segments: the dict keyed by trace id + segment id
    fetched,            \* the 'Traces' of every batch_get_traces call that returned
    requested,          \* the TraceIds of every batch_get_traces call made
    failed_batches,     \* the number of batch_get_traces calls that raised
    seg_list,           \* the list get_segments returned (None before)
    stats,              \* what get_stats returned (None before)
    error,              \* the exception that left get_stats (None if none)
    \* cli
    rate,               \* the --rate option, a sequence of characters
    duration,           \* the --duration option, a sequence of characters
    cpc,                \* cli: position
    effects,            \* the steps with an outside effect executed so far
    cli_error,          \* the exception that ended the command (None if none)
    \* run_benchmark's wait for the duration
    wait_duration,      \* duration, in seconds
    clock,              \* time.time() - start_time, in ticks
    wtpc,               \* the wait loop: position
    readings,           \* the elapsed times the loop test has read
    signal_at,          \* the clock when shutdown was signalled (None before)
    \* the delivery-path handlers
    hservice,           \* the delivery path whose handler is invoked
    sent,               \* the messages fanout_handler published
    event,              \* the event the path delivers to the handler
    emitted,            \* the documents given to put_trace_segments
    hpc                 \* the handler: position

run_vars == <<queue_size, rate_queue, tpc, texit, ticks, dropped, wpc, wexit,
              invocations, main_invocations, mpc, idx, total_invocations,
              manager_up, enqueued, popped, issued, lost>>

fetch_vars == <<trace_ids, fpc, pos, segments, fetched, requested, failed_batches,
                seg_list, stats, error>>

cli_vars == <<rate, duration, cpc, effects, cli_error>>

wait_vars == <<wait_duration, clock, wtpc, readings, signal_at>>

handler_vars == <<hservice, sent, event, emitted, hpc>>

vars == <<run_vars, fetch_vars, cli_vars, wait_vars, handler_vars>>

\* what the actions of one part leave alone
not_run_vars == <<fetch_vars, cli_vars, wait_vars, handler_vars>>
not_fetch_vars == <<run_vars, cli_vars, wait_vars, handler_vars>>
not_cli_vars == <<run_vars, fetch_vars, wait_vars, handler_vars>>
not_wait_vars == <<run_vars, fetch_vars, cli_vars, handler_vars>>
not_handler_vars == <<run_vars, fetch_vars, cli_vars, wait_vars>>

\* Python's None; a value v that is set is held as <<v>>
None == <<>>
Some(v) == <<v>>
Workers == 1..NUM_WORKERS

----------------------------------------------------------------------------
(* queue.Queue as run_benchmark creates and uses it *)

\* multiprocessing.Manager().Queue(maxsize=size): maxsize <= 0 means unbounded
NewQueueUnbounded(size) == [items |-> <<>>, maxsize |-> 0]
NewQueue(size) == [items |-> <<>>, maxsize |-> size]

\* rate_queue.full()
QueueFull(q) == 0 < q.maxsize /\ q.maxsize <= Len(q.items)

\* rate_queue.put(0) blocks while the queue has no free slot
CanPut(q) == ~(0 < q.maxsize /\ q.maxsize <= Len(q.items))
QueuePut(q, item) == [q EXCEPT !.items = Append(@, item)]

\* rate_queue.get(timeout=...) pops the head; queue.Empty when none came in time
QueueEmpty(q) == Len(q.items) = 0
QueueGet(q) == [q EXCEPT !.items = Tail(@)]

RECURSIVE SumOver(_, _)
SumOver(f, S) ==
    IF S = {} THEN 0
    ELSE LET x == CHOOSE y \in S : TRUE IN f[x] + SumOver(f, S \ {x})

----------------------------------------------------------------------------
(* Throttler.run *)

\* while not self.exit.is_set()
ThrottlerLoop ==
    /\ tpc = "loop"
    /\ tpc' = IF texit THEN "done" ELSE "full"
    /\ UNCHANGED <<queue_size, rate_queue, texit, ticks, dropped, wpc, wexit,
                   invocations, main_invocations, mpc, idx, total_invocations,
                   manager_up,
                   enqueued, popped, issued, lost, not_run_vars>>

\* if not self.rate_queue.full(): a full queue drops the tick
ThrottlerCheckFullAlwaysPut ==
    /\ tpc = "full"
    /\ manager_up
    /\ ticks' = ticks + 1
    /\ tpc' = "put"
    /\ UNCHANGED <<queue_size, rate_queue, texit, dropped, wpc, wexit,
                   invocations, main_invocations, mpc, idx, total_invocations,
                   manager_up,
                   enqueued, popped, issued, lost, not_run_vars>>

ThrottlerCheckFull ==
    /\ tpc = "full"
    /\ manager_up
    /\ ticks' = ticks + 1
    /\ IF QueueFull(rate_queue)
       THEN /\ tpc' = "sleep"
            /\ dropped' = dropped + 1
       ELSE /\ tpc' = "put"
            /\ UNCHANGED dropped
    /\ UNCHANGED <<queue_size, rate_queue, texit, wpc, wexit,
                   invocations, main_invocations, mpc, idx, total_invocations,
                   manager_up,
                   enqueued, popped, issued, lost, not_run_vars>>

\* self.rate_queue.put(0): a blocking put, enabled once there is a free slot
ThrottlerPut ==
    /\ tpc = "put"
    /\ manager_up
    /\ CanPut(rate_queue)
    /\ rate_queue' = QueuePut(rate_queue, 0)
    /\ tpc' = "sleep"
    /\ enqueued' = enqueued + 1
    /\ UNCHANGED <<queue_size, texit, ticks, dropped, wpc, wexit,
                   invocations, main_invocations, mpc, idx, total_invocations,
                   manager_up,
                   popped, issued, lost, not_run_vars>>

\* time.sleep(self.interval); the run holds at most MaxTicks iterations
\* before shutdown is signalled
ThrottlerSleep ==
    /\ tpc = "sleep"
    /\ ticks < MaxTicks \/ texit
    /\ tpc' = "loop"
    /\ UNCHANGED <<queue_size, rate_queue, texit, ticks, dropped, wpc, wexit,
                   invocations, main_invocations, mpc, idx, total_invocations,
                   manager_up,
                   enqueued, popped, issued, lost, not_run_vars>>

\* except BrokenPipeError: return (a queue call after the manager is gone)
ThrottlerBrokenPipe ==
    /\ tpc \in {"full", "put"}
    /\ ~manager_up
    /\ tpc' = "done"
    /\ lost' = IF tpc = "put" THEN lost + 1 ELSE lost
    /\ UNCHANGED <<queue_size, rate_queue, texit, ticks, dropped, wpc, wexit,
                   invocations, main_invocations, mpc, idx, total_invocations,
                   manager_up,
                   enqueued, popped, issued, not_run_vars>>

\* Throttler.shutdown, called by run_benchmark
ThrottlerShutdown == texit' = TRUE

----------------------------------------------------------------------------
(* Worker.run *)

\* while True: the exit event is never looked at
WorkerLoopIgnoresExit(w) ==
    /\ wpc[w] = "loop"
    /\ wpc' = [wpc EXCEPT ![w] = "get"]
    /\ UNCHANGED <<queue_size, rate_queue, tpc, texit, ticks, dropped, wexit,
                   invocations, main_invocations, mpc, idx, total_invocations,
                   manager_up,
                   enqueued, popped, issued, lost, not_run_vars>>

\* while not self.exit.is_set()
WorkerLoop(w) ==
    /\ wpc[w] = "loop"
    /\ wpc' = [wpc EXCEPT ![w] = IF wexit[w] THEN "done" ELSE "get"]
    /\ UNCHANGED <<queue_size, rate_queue, tpc, texit, ticks, dropped, wexit,
                   invocations, main_invocations, mpc, idx, total_invocations,
                   manager_up,
                   enqueued, popped, issued, lost, not_run_vars>>

\* the except clause guards the get alone: after a timeout the Worker goes
\* on to invoke without a token
WorkerGetInvokesOnEmpty(w) ==
    /\ wpc[w] = "get"
    /\ IF QueueEmpty(rate_queue)
       THEN /\ wpc' = [wpc EXCEPT ![w] = "invoke"]
            /\ UNCHANGED <<rate_queue, popped>>
       ELSE /\ rate_queue' = QueueGet(rate_queue)
            /\ popped' = popped + 1
            /\ wpc' = [wpc EXCEPT ![w] = "invoke"]
    /\ UNCHANGED <<queue_size, tpc, texit, ticks, dropped, wexit,
                   invocations, main_invocations, mpc, idx, total_invocations,
                   manager_up,
                   enqueued, issued, lost, not_run_vars>>

\* self.rate_queue.get(timeout=0.01); except queue.Empty: continue
WorkerGet(w) ==
    /\ wpc[w] = "get"
    /\ IF QueueEmpty(rate_queue)
       THEN /\ wpc' = [wpc EXCEPT ![w] = "loop"]
            /\ UNCHANGED <<rate_queue, popped>>
       ELSE /\ rate_queue' = QueueGet(rate_queue)
            /\ popped' = popped + 1
            /\ wpc' = [wpc EXCEPT ![w] = "invoke"]
    /\ UNCHANGED <<queue_size, tpc, texit, ticks, dropped, wexit,
                   invocations, main_invocations, mpc, idx, total_invocations,
                   manager_up,
                   enqueued, issued, lost, not_run_vars>>

\* lambda_client.invoke(...) returns; self.invocations += 1
WorkerInvokeOk(w) ==
    /\ wpc[w] = "invoke"
    /\ invocations' = [invocations EXCEPT ![w] = @ + 1]
    /\ wpc' = [wpc EXCEPT ![w] = "loop"]
    /\ issued' = issued + 1
    /\ UNCHANGED lost
    /\ UNCHANGED <<queue_size, rate_queue, tpc, texit, ticks, dropped, wexit,
                   main_invocations, mpc, idx, total_invocations, manager_up,
                   enqueued, popped, not_run_vars>>

\* lambda_client.invoke(...) raises: only queue.Empty is caught, so the
\* exception leaves run() and the process ends
WorkerInvokeFails(w) ==
    /\ wpc[w] = "invoke"
    /\ wpc' = [wpc EXCEPT ![w] = "crashed"]
    /\ issued' = issued + 1
    /\ UNCHANGED lost
    /\ UNCHANGED <<queue_size, rate_queue, tpc, texit, ticks, dropped, wexit,
                   invocations, main_invocations, mpc, idx, total_invocations,
                   manager_up,
                   enqueued, popped, not_run_vars>>

\* Worker.shutdown, called by run_benchmark
WorkerShutdown(w) == wexit' = [wexit EXCEPT ![w] = TRUE]

Terminated(w) == wpc[w] \in {"done", "crashed"}

----------------------------------------------------------------------------
(* run_benchmark *)

\* throttler.start()
MainStartThrottler ==
    /\ mpc = "start_throttler"
    /\ tpc' = "loop"
    /\ mpc' = "start_workers"
    /\ idx' = 1
    /\ UNCHANGED <<queue_size, rate_queue, texit, ticks, dropped, wpc, wexit,
                   invocations, main_invocations, total_invocations, manager_up,
                   enqueued, popped, issued, lost, not_run_vars>>

\* for p in workers: p.start()  (the child starts with a copy of the object)
MainStartWorker ==
    /\ mpc = "start_workers"
    /\ wpc' = [wpc EXCEPT ![idx] = "loop"]
    /\ invocations' = [invocations EXCEPT ![idx] = main_invocations[idx]]
    /\ IF idx < NUM_WORKERS
       THEN /\ idx' = idx + 1
            /\ UNCHANGED mpc
       ELSE /\ idx' = 1
            /\ mpc' = "wait"
    /\ UNCHANGED <<queue_size, rate_queue, tpc, texit, ticks, dropped, wexit,
                   main_invocations, total_invocations, manager_up,
                   enqueued, popped, issued, lost, not_run_vars>>

\* while (time.time() - start_time) <= duration: the duration has expired
MainWait ==
    /\ mpc = "wait"
    /\ mpc' = "shutdown_workers"
    /\ idx' = 1
    /\ UNCHANGED <<queue_size, rate_queue, tpc, texit, ticks, dropped, wpc, wexit,
                   invocations, main_invocations, total_invocations, manager_up,
                   enqueued, popped, issued, lost, not_run_vars>>

\* for w in workers: w.shutdown()
MainShutdownWorker ==
    /\ mpc = "shutdown_workers"
    /\ WorkerShutdown(idx)
    /\ IF idx < NUM_WORKERS
       THEN /\ idx' = idx + 1
            /\ UNCHANGED mpc
       ELSE /\ idx' = 1
            /\ mpc' = "join_workers"
    /\ UNCHANGED <<queue_size, rate_queue, tpc, texit, ticks, dropped, wpc,
                   invocations, main_invocations, total_invocations, manager_up,
                   enqueued, popped, issued, lost, not_run_vars>>

\* for w in workers: w.join() without waiting for the process to end
MainJoinWorkerNoWait ==
    /\ mpc = "join_workers"
    /\ IF idx < NUM_WORKERS
       THEN /\ idx' = idx + 1
            /\ UNCHANGED mpc
       ELSE /\ idx' = 1
            /\ mpc' = "shutdown_throttler"
    /\ UNCHANGED <<queue_size, rate_queue, tpc, texit, ticks, dropped, wpc, wexit,
                   invocations, main_invocations, total_invocations, manager_up,
                   enqueued, popped, issued, lost, not_run_vars>>

\* for w in workers: w.join()
MainJoinWorker ==
    /\ mpc = "join_workers"
    /\ Terminated(idx)
    /\ IF idx < NUM_WORKERS
       THEN /\ idx' = idx + 1
            /\ UNCHANGED mpc
       ELSE /\ idx' = 1
            /\ mpc' = "shutdown_throttler"
    /\ UNCHANGED <<queue_size, rate_queue, tpc, texit, ticks, dropped, wpc, wexit,
                   invocations, main_invocations, total_invocations, manager_up,
                   enqueued, popped, issued, lost, not_run_vars>>

\* throttler.shutdown()
MainShutdownThrottler ==
    /\ mpc = "shutdown_throttler"
    /\ ThrottlerShutdown
    /\ mpc' = "sum"
    /\ UNCHANGED <<queue_size, rate_queue, tpc, ticks, dropped, wpc, wexit,
                   invocations, main_invocations, idx, total_invocations,
                   manager_up,
                   enqueued, popped, issued, lost, not_run_vars>>

\* total_invocations = sum([w.invocations for w in workers]): the Worker
\* objects of the main process
MainSum ==
    /\ mpc = "sum"
    /\ total_invocations' = Some(SumOver(main_invocations, Workers))
    /\ mpc' = "done"
    /\ UNCHANGED <<queue_size, rate_queue, tpc, texit, ticks, dropped, wpc, wexit,
                   invocations, main_invocations, idx, manager_up,
                   enqueued, popped, issued, lost, not_run_vars>>

\* the interpreter exits after cli: multiprocessing's exit handler runs the
\* manager's finalizer before it joins the Throttler
MainExit ==
    /\ mpc = "done"
    /\ manager_up
    /\ manager_up' = FALSE
    /\ mpc' = "exited"
    /\ UNCHANGED <<queue_size, rate_queue, tpc, texit, ticks, dropped, wpc, wexit,
                   invocations, main_invocations, idx, total_invocations,
                   enqueued, popped, issued, lost, not_run_vars>>

----------------------------------------------------------------------------

(* get_segments: the dict, the batches and the records *)

\* the largest list of trace ids get_trace_ids returns
MaxTraceIds == 3
\* the largest batch of one batch_get_traces call (the source's
\* _MAX_BATCH_SIZE is 5)
MAX_BATCH_SIZE == 2

\* X-Ray ids have a fixed length, trace ids and segment ids alike
TraceIds == {"t1", "t2"}

Segment(id, doc) == [Id |-> id, Document |-> doc]

\* The segments X-Ray may return for one trace: none, one segment in an
\* earlier or a later version of its document, a benchmark segment beside
\* the segment of another instrumentation, or a segment whose annotations are
\* named like fields of the segment.
TraceBodies ==
    { <<>>,
      <<Segment("s1", "d1")>>,
      <<Segment("s1", "d2")>>,
      <<Segment("s1", "d1"), Segment("s2", "d3")>>,
      <<Segment("s2", "d4")>>,
      <<Segment("s2", "d5")>> }

\* json.loads(v['Document']) of the documents above; a name is held as the
\* sequence of its parts
JsonLoads(doc) ==
    CASE doc = "d1" ->
           [name |-> <<"sqs", "_benchmark">>, start_time |-> 1, end_time |-> 3,
            annotations |-> [scope |-> "benchmark", service |-> "sqs"]]
      [] doc = "d2" ->
           [name |-> <<"sqs", "_benchmark">>, start_time |-> 1, end_time |-> 4,
            annotations |-> [scope |-> "benchmark", service |-> "sqs"]]
      [] doc = "d3" ->
           [name |-> <<"fanout">>, start_time |-> 0, end_time |-> 1,
            annotations |-> [scope |-> "other"]]
      [] doc = "d4" ->
           [name |-> <<"sns", "_benchmark">>, start_time |-> 2, end_time |-> 1,
            annotations |-> [scope |-> "benchmark", service |-> "sns"]]
      [] doc = "d5" ->
           [name |-> <<"sqs", "_benchmark">>, start_time |-> 1, end_time |-> 2,
            annotations |-> [scope |-> "benchmark", service |-> "sqs",
                             name |-> <<"renamed">>, duration |-> 7,
                             annotations |-> "x"]]

\* a Python dict: its items in insertion order, the keys distinct
DictHas(d, k) == \E i \in DOMAIN d : d[i].key = k
DictGet(d, k) == d[CHOOSE i \in DOMAIN d : d[i].key = k].value
DictValues(d) == [i \in DOMAIN d |-> d[i].value]

\* d.setdefault(k, v): a key already stored keeps its value
DictSetKeepFirst(d, k, v) ==
    IF DictHas(d, k) THEN d ELSE Append(d, [key |-> k, value |-> v])

\* a list instead of a dict: every item is appended
DictSetAppend(d, k, v) == Append(d, [key |-> k, value |-> v])

\* d[k] = v: a key already stored keeps its place and takes the new value
DictSet(d, k, v) ==
    IF DictHas(d, k)
    THEN [i \in DOMAIN d |-> IF d[i].key = k THEN [key |-> k, value |-> v] ELSE d[i]]
    ELSE Append(d, [key |-> k, value |-> v])

\* d.update(items), and {k: v for ...} as the update of an empty dict
RECURSIVE DictUpdate(_, _)
DictUpdate(d, items) ==
    IF items = <<>> THEN d
    ELSE DictUpdate(DictSet(d, Head(items).key, Head(items).value), Tail(items))

\* the (key, value) pairs of: for t in traces for s in t['Segments'], with
\* the key t['Id'] + s['Id']
RECURSIVE TracePairs(_)
TracePairs(traces) ==
    IF traces = <<>> THEN <<>>
    ELSE LET t == Head(traces)
         IN  [i \in DOMAIN t.Segments |->
                 [key |-> t.Id \o t.Segments[i].Id, value |-> t.Segments[i]]]
             \o TracePairs(Tail(traces))

\* segments.update({t['Id'] + s['Id']: s for t in traces for s in t['Segments']})
MergeBatch(d, traces) == DictUpdate(d, DictUpdate(<<>>, TracePairs(traces)))

\* chunks(l, n) with the slice l[i:i + n - 1]
ChunkOneShort(l, i, n) ==
    SubSeq(l, i, IF i + n - 2 < Len(l) THEN i + n - 2 ELSE Len(l))

\* chunks(l, n): the slice l[i:i + n], i counted from 1
Chunk(l, i, n) ==
    SubSeq(l, i, IF i + n - 1 < Len(l) THEN i + n - 1 ELSE Len(l))

\* what batch_get_traces may answer for a batch of ids: one trace per id
Responses(ids) ==
    { r \in [DOMAIN ids -> [Id : TraceIds, Segments : TraceBodies]] :
        \A i \in DOMAIN ids : r[i].Id = ids[i] }

\* '_benchmark' in v['name']
HasBenchmarkMarker(v) == \E i \in DOMAIN v.name : v.name[i] = "_benchmark"

\* compute_duration
compute_duration(segment) ==
    [k \in DOMAIN segment \cup {"duration"} |->
        IF k = "duration" THEN segment.end_time - segment.start_time
        ELSE segment[k]]

\* unpack_annotations: segment.update(segment['annotations']);
\* segment.pop('annotations')
unpack_annotations(segment) ==
    LET ann == segment.annotations
        updated == [k \in DOMAIN segment \cup DOMAIN ann |->
                       IF k \in DOMAIN ann THEN ann[k] ELSE segment[k]]
    IN  [k \in DOMAIN updated \ {"annotations"} |-> updated[k]]

\* the four list comprehensions that end get_segments
ProcessSegments(d) ==
    LET loaded == [i \in DOMAIN d |-> JsonLoads(DictValues(d)[i].Document)]
        kept == SelectSeq(loaded, HasBenchmarkMarker)
        timed == [i \in DOMAIN kept |-> compute_duration(kept[i])]
    IN  [i \in DOMAIN timed |-> unpack_annotations(timed[i])]

\* get_dataframe: the rows with duration > 0
PositiveRows(rows) == SelectSeq(rows, LAMBDA r : r.duration > 0)

\* compute_service_stats: one row per service that labels a row, with the
\* count and the mean in milliseconds as <<numerator, denominator>> (the
\* percentile columns are left out)
RECURSIVE SumDurations(_)
SumDurations(rows) ==
    IF rows = <<>> THEN 0 ELSE Head(rows).duration + SumDurations(Tail(rows))

ServiceStats(rows) ==
    LET services == {rows[i].service : i \in DOMAIN rows}
        group(sv) == SelectSeq(rows, LAMBDA r : r.service = sv)
    IN  [sv \in services |->
            [count |-> Len(group(sv)),
             mean |-> <<1000 * SumDurations(group(sv)), Len(group(sv))>>]]

----------------------------------------------------------------------------
(* get_stats *)

\* for ids in chunks(trace_ids, _MAX_BATCH_SIZE):
\*     traces = xray_client.batch_get_traces(TraceIds=ids)['Traces']
\*     segments.update(...)
FetchBatch ==
    /\ fpc = "fetch"
    /\ pos <= Len(trace_ids)
    /\ \E traces \in Responses(Chunk(trace_ids, pos, MAX_BATCH_SIZE)) :
          /\ segments' = MergeBatch(segments, traces)
          /\ fetched' = Append(fetched, traces)
    /\ requested' = Append(requested, Chunk(trace_ids, pos, MAX_BATCH_SIZE))
    /\ pos' = pos + MAX_BATCH_SIZE
    /\ UNCHANGED <<trace_ids, fpc, failed_batches, seg_list, stats, error,
                   not_fetch_vars>>

\* batch_get_traces raises and an except clause skips the batch
FetchBatchFailsSkipped ==
    /\ fpc = "fetch"
    /\ pos <= Len(trace_ids)
    /\ failed_batches' = failed_batches + 1
    /\ requested' = Append(requested, Chunk(trace_ids, pos, MAX_BATCH_SIZE))
    /\ pos' = pos + MAX_BATCH_SIZE
    /\ UNCHANGED <<trace_ids, fpc, segments, fetched, seg_list, stats, error,
                   not_fetch_vars>>

\* batch_get_traces raises: nothing catches it in get_segments or get_stats
FetchBatchFails ==
    /\ fpc = "fetch"
    /\ pos <= Len(trace_ids)
    /\ failed_batches' = failed_batches + 1
    /\ requested' = Append(requested, Chunk(trace_ids, pos, MAX_BATCH_SIZE))
    /\ error' = Some("ClientError")
    /\ fpc' = "raised"
    /\ UNCHANGED <<trace_ids, pos, segments, fetched, seg_list, stats,
                   not_fetch_vars>>

\* the loop is over: the list comprehensions, return segments
GetSegmentsReturn ==
    /\ fpc = "fetch"
    /\ pos > Len(trace_ids)
    /\ seg_list' = Some(ProcessSegments(segments))
    /\ fpc' = "dataframe"
    /\ UNCHANGED <<trace_ids, pos, segments, fetched, requested, failed_batches, stats,
                   error, not_fetch_vars>>

\* get_dataframe, compute_service_stats, return.  pd.DataFrame([]) has no
\* 'duration' column (KeyError); grouping no row leaves nothing to unstack.
ComputeStats ==
    /\ fpc = "dataframe"
    /\ LET rows == seg_list[1]
       IN  IF rows = <<>>
           THEN /\ error' = Some("KeyError")
                /\ fpc' = "raised"
                /\ UNCHANGED stats
           ELSE IF PositiveRows(rows) = <<>>
           THEN /\ error' = Some("UnstackError")
                /\ fpc' = "raised"
                /\ UNCHANGED stats
           ELSE /\ stats' = Some(ServiceStats(PositiveRows(rows)))
                /\ fpc' = "returned"
                /\ UNCHANGED error
    /\ UNCHANGED <<trace_ids, pos, segments, fetched, requested, failed_batches,
                   seg_list,
                   not_fetch_vars>>

\* get_stats is not running
FetchIdle ==
    /\ trace_ids = <<>>
    /\ fpc = "idle"
    /\ pos = 1
    /\ segments = <<>>
    /\ fetched = <<>>
    /\ requested = <<>>
    /\ failed_batches = 0
    /\ seg_list = None
    /\ stats = None
    /\ error = None

----------------------------------------------------------------------------
(* run_benchmark: the wait for the duration, with the clock *)

\* the ticks of the clock in one second
TicksPerSecond == 2
\* the most a step may take beyond its nominal time, in ticks
MaxLag == 1
\* the longest duration, in seconds
MaxWaitDuration == 3

\* while (time.time() - start_time) < duration
WaitTestStrict ==
    /\ wtpc = "test"
    /\ readings' = Append(readings, clock)
    /\ wtpc' = IF clock < wait_duration * TicksPerSecond
               THEN "sleep" ELSE "shutdown"
    /\ UNCHANGED <<wait_duration, clock, signal_at, not_wait_vars>>

\* while (time.time() - start_time) <= duration
WaitTest ==
    /\ wtpc = "test"
    /\ readings' = Append(readings, clock)
    /\ wtpc' = IF clock <= wait_duration * TicksPerSecond
               THEN "sleep" ELSE "shutdown"
    /\ UNCHANGED <<wait_duration, clock, signal_at, not_wait_vars>>

\* time.sleep(1); logging.info(...): a second at least
WaitSleep ==
    /\ wtpc = "sleep"
    /\ \E lag \in 0..MaxLag : clock' = clock + TicksPerSecond + lag
    /\ wtpc' = "test"
    /\ UNCHANGED <<wait_duration, readings, signal_at, not_wait_vars>>

\* for w in workers: w.shutdown()
WaitShutdown ==
    /\ wtpc = "shutdown"
    /\ \E lag \in 0..MaxLag :
          /\ clock' = clock + lag
          /\ signal_at' = Some(clock + lag)
    /\ wtpc' = "signalled"
    /\ UNCHANGED <<wait_duration, readings, not_wait_vars>>

\* run_benchmark is not waiting
WaitIdle ==
    /\ wait_duration = 0
    /\ clock = 0
    /\ wtpc = "idle"
    /\ readings = <<>>
    /\ signal_at = None

----------------------------------------------------------------------------
(* functions/app.py: the delivery-path handlers *)

\* the most records one event carries
MaxRecords == 2

Services == {"sns", "dynamodb", "sqs", "kinesis"}

\* what fanout_handler publishes on every path
Messages == [trace_id : {"T1", "T2"}, id : {"a", "b"}, start_time : {1, 2}]

\* json.dumps / json.loads, base64 encoding / decoding, str / float: the
\* encoded value is not the value
json_dumps(v) == [json |-> v]
json_loads(s) == s.json
b64encode(b) == [b64 |-> b]
b64decode(x) == x.b64
str(n) == [repr |-> n]
float(x) == x.repr

\* the record in which a delivery path hands a message to its handler
Record(service, m) ==
    CASE service = "sns" -> [Sns |-> [Message |-> json_dumps(m)]]
      [] service = "dynamodb" ->
           [dynamodb |-> [NewImage |-> [id |-> [S |-> m.id],
                                        start_time |-> [N |-> str(m.start_time)],
                                        trace_id |-> [S |-> m.trace_id]]]]
      [] service = "sqs" -> [body |-> json_dumps(m)]
      [] service = "kinesis" ->
           [kinesis |-> [data |-> b64encode(json_dumps(m))]]

\* Segment(name, traceid, parent_id, sampled=True) with its start_time and
\* the two annotations, serialized
SegmentDocument(service, traceid, parent_id, start) ==
    [name |-> <<service, "_benchmark">>, trace_id |-> traceid,
     parent_id |-> parent_id, start_time |-> start,
     annotations |-> [scope |-> "benchmark", service |-> service]]

\* xray_client.put_trace_segments(TraceSegmentDocuments=[segment.serialize()])
PutTraceSegment(service, document) ==
    /\ hpc = "invoke"
    /\ hservice = service
    /\ emitted' = Append(emitted, document)
    /\ hpc' = "done"
    /\ UNCHANGED <<hservice, sent, event, not_handler_vars>>

sns_handler ==
    /\ hservice = "sns"
    /\ LET message == json_loads(event.Records[1].Sns.Message)
       IN  PutTraceSegment("sns",
               SegmentDocument("sns", message.trace_id, message.id,
                               message.start_time))

dynamodb_handler ==
    /\ hservice = "dynamodb"
    /\ LET message == event.Records[1].dynamodb.NewImage
       IN  PutTraceSegment("dynamodb",
               SegmentDocument("dynamodb", message.trace_id.S, message.id.S,
                               float(message.start_time.N)))

sqs_handler ==
    /\ hservice = "sqs"
    /\ LET message == json_loads(event.Records[1].body)
       IN  PutTraceSegment("sqs",
               SegmentDocument("sqs", message.trace_id, message.id,
                               message.start_time))

kinesis_handler ==
    /\ hservice = "kinesis"
    /\ LET message == json_loads(b64decode(event.Records[1].kinesis.data))
       IN  PutTraceSegment("kinesis",
               SegmentDocument("kinesis", message.trace_id, message.id,
                               message.start_time))

\* no handler is invoked
HandlerIdle ==
    /\ hservice = ""
    /\ sent = <<>>
    /\ event = [Records |-> <<>>]
    /\ emitted = <<>>
    /\ hpc = "idle"

\* run_benchmark is not running
RunIdle ==
    /\ queue_size = 1
    /\ rate_queue = NewQueue(1)
    /\ tpc = "init"
    /\ texit = FALSE
    /\ ticks = 0
    /\ dropped = 0
    /\ wpc = [w \in Workers |-> "init"]
    /\ wexit = [w \in Workers |-> FALSE]
    /\ invocations = [w \in Workers |-> 0]
    /\ main_invocations = [w \in Workers |-> 0]
    /\ mpc = "idle"
    /\ idx = 1
    /\ total_invocations = None
    /\ manager_up = TRUE
    /\ enqueued = 0
    /\ popped = 0
    /\ issued = 0
    /\ lost = 0

----------------------------------------------------------------------------

(* cli and its option callbacks *)

\* the longest --rate and --duration strings tried
MaxRateLen == 3
MaxDurationLen == 2

\* the characters the option strings are made of
Alphabet == {"0", "3", "/", "s", "m"}
Digits == {"0", "3"}
Strings(n) == UNION {[1..m -> Alphabet] : m \in 0..n}

\* where $ matches: at the end, or before a newline that ends the string
EndOfPattern(value) ==
    IF Len(value) > 0 /\ value[Len(value)] = "\n" THEN Len(value) - 1
    ELSE Len(value)

\* re.match(_RATE_REGEX, value) is not None, _RATE_REGEX = ^([0-9]+)\/([sm])$
MatchRate(value) ==
    LET n == EndOfPattern(value)
    IN  /\ n >= 3
        /\ value[n] \in {"s", "m"}
        /\ value[n - 1] = "/"
        /\ \A i \in 1..(n - 2) : value[i] \in Digits

\* re.match(_DURATION_REGEX, value) is not None, _DURATION_REGEX = ^([0-9]+)([sm])$
MatchDuration(value) ==
    LET n == EndOfPattern(value)
    IN  /\ n >= 2
        /\ value[n] \in {"s", "m"}
        /\ \A i \in 1..(n - 1) : value[i] \in Digits

\* validate_rate: TRUE when the value is returned, FALSE when
\* click.BadParameter is raised
validate_rate(value) == MatchRate(value)

\* a callback that accepts whatever it is given
validate_duration_accepts_all(value) == TRUE

\* validate_duration: TRUE when the value is returned, FALSE when
\* click.BadParameter is raised
validate_duration(value) == MatchDuration(value)

\* float(m.group(1)) of a run of digits
DigitValue(c) == IF c = "3" THEN 3 ELSE 0
RECURSIVE DigitsValue(_)
DigitsValue(ds) ==
    IF ds = <<>> THEN 0
    ELSE 10 * DigitsValue(SubSeq(ds, 1, Len(ds) - 1)) + DigitValue(ds[Len(ds)])

\* parse_rate: the rate per second as <<numerator, denominator>>
parse_rate(value) ==
    LET n == EndOfPattern(value)
        num == DigitsValue(SubSeq(value, 1, n - 2))
    IN  IF value[n] = "m" THEN <<num, 60>> ELSE <<num, 1>>

\* parse_duration: the duration in seconds
parse_duration(value) ==
    LET n == EndOfPattern(value)
        num == DigitsValue(SubSeq(value, 1, n - 1))
    IN  IF value[n] = "m" THEN num * 60 ELSE num

\* click parses the options and calls their callbacks before the body of cli
CliParseArgs ==
    /\ cpc = "parse_args"
    /\ IF validate_rate(rate) /\ validate_duration(duration)
       THEN /\ cpc' = "create_requirements"
            /\ UNCHANGED cli_error
       ELSE /\ cpc' = "rejected"
            /\ cli_error' = Some("BadParameter")
    /\ UNCHANGED <<rate, duration, effects, not_cli_vars>>

\* one invoke.run(...) step of cli: the command runs, and a non-zero exit
\* raises
CliStep(at, effect, next) ==
    /\ cpc = at
    /\ effects' = Append(effects, effect)
    /\ \E ok \in BOOLEAN :
          IF ok
          THEN /\ cpc' = next
               /\ UNCHANGED cli_error
          ELSE /\ cpc' = "failed"
               /\ cli_error' = Some("UnexpectedExit")
    /\ UNCHANGED <<rate, duration, not_cli_vars>>

\* setup_logging(debug); create_requirements_file()
CliCreateRequirements == CliStep("create_requirements", "requirements", "build")
\* build_lambda_functions()
CliBuild == CliStep("build", "build", "package")
\* package_lambda_function(bucket)
CliPackage == CliStep("package", "package", "deploy")
\* deploy_lambda_functions(...)
CliDeploy == CliStep("deploy", "deploy", "run_benchmark")

\* run_benchmark(rate, duration=duration, stack_name=stack_name):
\* get_function_name may raise, the strings are parsed (m is None for a
\* string that does not match), the period 1.0 / rate is computed, then the
\* processes are started
CliRunBenchmark ==
    /\ cpc = "run_benchmark"
    /\ \E found \in BOOLEAN :
          IF ~found
          THEN /\ cpc' = "failed"
               /\ cli_error' = Some("ClientError")
               /\ UNCHANGED effects
          ELSE IF ~MatchRate(rate) \/ ~MatchDuration(duration)
          THEN /\ cpc' = "failed"
               /\ cli_error' = Some("AttributeError")
               /\ UNCHANGED effects
          ELSE IF parse_rate(rate)[1] = 0
          THEN /\ cpc' = "failed"
               /\ cli_error' = Some("ZeroDivisionError")
               /\ UNCHANGED effects
          ELSE /\ effects' = Append(effects, "dispatch")
               /\ cpc' = "get_stats"
               /\ UNCHANGED cli_error
    /\ UNCHANGED <<rate, duration, not_cli_vars>>

\* stats = get_stats(duration=duration, discarded=discarded); print(stats)
CliGetStats ==
    /\ cpc = "get_stats"
    /\ IF ~MatchDuration(duration)
       THEN /\ cpc' = "failed"
            /\ cli_error' = Some("AttributeError")
            /\ UNCHANGED effects
       ELSE /\ effects' = Append(effects, "stats")
            /\ \E ok \in BOOLEAN :
                  IF ok
                  THEN /\ cpc' = "delete_stack"
                       /\ UNCHANGED cli_error
                  ELSE /\ cpc' = "failed"
                       /\ cli_error' = Some("StatsError")
    /\ UNCHANGED <<rate, duration, not_cli_vars>>

\* delete_stack(stack_name=stack_name)
CliDeleteStack == CliStep("delete_stack", "delete_stack", "wait_deletion")
\* wait_for_stack_deletion(stack_name=stack_name)
CliWaitDeletion == CliStep("wait_deletion", "wait_deletion", "done")

\* cli is not running
CliIdle ==
    /\ rate = <<>>
    /\ duration = <<>>
    /\ cpc = "idle"
    /\ effects = <<>>
    /\ cli_error = None

----------------------------------------------------------------------------

\* run_benchmark up to the construction of the throttler and the workers
Init ==
    /\ queue_size \in 1..MaxQueueSize
    /\ rate_queue = NewQueue(queue_size)
    /\ tpc = "init"
    /\ texit = FALSE
    /\ ticks = 0
    /\ dropped = 0
    /\ wpc = [w \in Workers |-> "init"]
    /\ wexit = [w \in Workers |-> FALSE]
    /\ invocations = [w \in Workers |-> 0]
    /\ main_invocations = [w \in Workers |-> 0]
    /\ mpc = "start_throttler"
    /\ idx = 1
    /\ total_invocations = None
    /\ manager_up = TRUE
    /\ enqueued = 0
    /\ popped = 0
    /\ issued = 0
    /\ lost = 0
    /\ FetchIdle
    /\ CliIdle
    /\ WaitIdle
    /\ HandlerIdle

Next ==
    \/ ThrottlerLoop
    \/ ThrottlerCheckFull
    \/ ThrottlerPut
    \/ ThrottlerSleep
    \/ ThrottlerBrokenPipe
    \/ \E w \in Workers : WorkerLoop(w)
    \/ \E w \in Workers : WorkerGet(w)
    \/ \E w \in Workers : WorkerInvokeOk(w)
    \/ \E w \in Workers : WorkerInvokeFails(w)
    \/ MainStartThrottler
    \/ MainStartWorker
    \/ MainWait
    \/ MainShutdownWorker
    \/ MainJoinWorker
    \/ MainShutdownThrottler
    \/ MainSum
    \/ MainExit

Spec == Init /\ [][Next]_vars

\* One step of each process
ThrottlerStep ==
    \/ ThrottlerLoop
    \/ ThrottlerCheckFull
    \/ ThrottlerPut
    \/ ThrottlerSleep
    \/ ThrottlerBrokenPipe

WorkerStep(w) ==
    \/ WorkerLoop(w)
    \/ WorkerGet(w)
    \/ WorkerInvokeOk(w)
    \/ WorkerInvokeFails(w)

MainStep ==
    \/ MainStartThrottler
    \/ MainStartWorker
    \/ MainWait
    \/ MainShutdownWorker
    \/ MainJoinWorker
    \/ MainShutdownThrottler
    \/ MainSum
    \/ MainExit

\* Every started process is scheduled again and again, every timed call
\* (get(timeout), sleep, invoke with the client's timeouts) returns or raises,
\* and the duration of the run is finite.  The processes change the
\* variables of run_benchmark only.
Fairness ==
    /\ WF_run_vars(ThrottlerStep)
    /\ \A w \in Workers : WF_run_vars(WorkerStep(w))
    /\ WF_run_vars(MainStep)

FairSpec == Spec /\ Fairness

\* get_stats once get_trace_ids has returned the list of trace ids
FetchInit ==
    /\ trace_ids \in UNION {[1..n -> TraceIds] : n \in 0..MaxTraceIds}
    /\ fpc = "fetch"
    /\ pos = 1
    /\ segments = <<>>
    /\ fetched = <<>>
    /\ requested = <<>>
    /\ failed_batches = 0
    /\ seg_list = None
    /\ stats = None
    /\ error = None
    /\ RunIdle
    /\ CliIdle
    /\ WaitIdle
    /\ HandlerIdle

FetchNext ==
    \/ FetchBatch
    \/ FetchBatchFails
    \/ GetSegmentsReturn
    \/ ComputeStats

FetchSpec == FetchInit /\ [][FetchNext]_vars

\* the command line as given, before click parses it
CliInit ==
    /\ rate \in Strings(MaxRateLen)
    /\ duration \in Strings(MaxDurationLen)
    /\ cpc = "parse_args"
    /\ effects = <<>>
    /\ cli_error = None
    /\ RunIdle
    /\ FetchIdle
    /\ WaitIdle
    /\ HandlerIdle

CliNext ==
    \/ CliParseArgs
    \/ CliCreateRequirements
    \/ CliBuild
    \/ CliPackage
    \/ CliDeploy
    \/ CliRunBenchmark
    \/ CliGetStats
    \/ CliDeleteStack
    \/ CliWaitDeletion

CliSpec == CliInit /\ [][CliNext]_vars

\* run_benchmark when the throttler and the workers have been started:
\* start_time = time.time()
WaitInit ==
    /\ wait_duration \in 0..MaxWaitDuration
    /\ clock \in 0..MaxLag
    /\ wtpc = "test"
    /\ readings = <<>>
    /\ signal_at = None
    /\ RunIdle
    /\ FetchIdle
    /\ CliIdle
    /\ HandlerIdle

WaitNext ==
    \/ WaitTest
    \/ WaitSleep
    \/ WaitShutdown

WaitSpec == WaitInit /\ [][WaitNext]_vars

\* a delivery path invokes its handler with an event of one record or more
HandlerInit ==
    /\ hservice \in Services
    /\ sent \in UNION {[1..n -> Messages] : n \in 1..MaxRecords}
    /\ event = [Records |-> [i \in DOMAIN sent |-> Record(hservice, sent[i])]]
    /\ emitted = <<>>
    /\ hpc = "invoke"
    /\ RunIdle
    /\ FetchIdle
    /\ CliIdle
    /\ WaitIdle

HandlerNext ==
    \/ sns_handler
    \/ dynamodb_handler
    \/ sqs_handler
    \/ kinesis_handler

HandlerSpec == HandlerInit /\ [][HandlerNext]_vars


----------------------------------------------------------------------------
(* Properties of run_benchmark *)

\* C1: the number of tokens resident in the rate queue never exceeds the
\* capacity C the queue was created with, in any interleaving of the
\* Throttler and the Workers.
C1_QueueNeverExceedsCapacity ==
    Len(rate_queue.items) <= queue_size

\* a tick found the queue holding exactly C tokens and was dropped
C1_Witness ==
    /\ Len(rate_queue.items) = queue_size
    /\ dropped > 0

\* C2: the Throttler never blocks on a full queue: whenever it is about to
\* execute put(0) the queue holds fewer than C tokens, whatever the Workers
\* did since full() answered, and a tick that finds the queue full goes
\* straight to the sleep, counted as dropped, leaving the queue alone.
C2_PutNeverBlocks ==
    [][ /\ (tpc' = "put" => Len(rate_queue'.items) < queue_size')
        /\ (tpc = "full" /\ tpc' # "full" /\ manager_up /\ QueueFull(rate_queue)
              => /\ tpc' = "sleep"
                 /\ dropped' = dropped + 1
                 /\ rate_queue' = rate_queue) ]_vars

\* the Throttler is about to put after an earlier tick was dropped, while a
\* Worker holds a token it popped
C2_Witness ==
    /\ tpc = "put"
    /\ dropped > 0
    /\ \E w \in Workers : wpc[w] = "invoke"

\* C3: a failed invocation never terminates a Worker: a Worker whose run()
\* has ended has been signalled shutdown before.
C3_FailedInvocationKeepsWorker ==
    \A w \in Workers : Terminated(w) => wexit[w]

\* C4: once run_benchmark starts signalling shutdown, eventually every
\* Worker has left its loop and every join has completed, and once shutdown
\* is signalled to the Throttler it eventually leaves its loop: nothing
\* stays blocked on the queue, on an invocation or in a sleep.
C4_ShutdownTerminates ==
    /\ (mpc = "shutdown_workers")
          ~> (mpc = "shutdown_throttler" /\ \A w \in Workers : Terminated(w))
    /\ texit ~> (tpc = "done")

\* every process has left its loop on the exit event, the queue still full
C4_Witness ==
    /\ texit /\ tpc = "done"
    /\ \A w \in Workers : wexit[w] /\ wpc[w] = "done"
    /\ QueueFull(rate_queue)

\* C5: shutdown is signalled to every Worker before the first join, and to
\* the Throttler only after every Worker has terminated.
C5_ShutdownOrder ==
    /\ (mpc = "join_workers" => \A w \in Workers : wexit[w])
    /\ (texit => \A w \in Workers : wexit[w] /\ Terminated(w))

\* the Throttler has been told to stop and is still in its loop
C5_Witness ==
    /\ texit
    /\ tpc \in {"loop", "full", "put", "sleep"}
    /\ \A w \in Workers : Terminated(w)

\* C6: the total run_benchmark computes equals the number of invocations
\* the Workers counted in their processes.
C6_TotalEqualsIssued ==
    mpc \in {"done", "exited"} =>
        total_invocations = Some(SumOver(invocations, Workers))

----------------------------------------------------------------------------
(* Properties of get_segments and get_stats *)

\* every (key, value) pair the returned batches held, in the order fetched
RECURSIVE AllPairs(_)
AllPairs(batches) ==
    IF batches = <<>> THEN <<>>
    ELSE TracePairs(Head(batches)) \o AllPairs(Tail(batches))

\* the merge step over a sequence of batches, from the empty dict
RECURSIVE MergeAll(_, _)
MergeAll(d, batches) ==
    IF batches = <<>> THEN d
    ELSE MergeAll(MergeBatch(d, Head(batches)), Tail(batches))

\* the batches (by their place in fetched) that returned key k
BatchesWith(k) ==
    {b \in DOMAIN fetched :
        \E i \in DOMAIN TracePairs(fetched[b]) : TracePairs(fetched[b])[i].key = k}

\* C7: once a batch_get_traces call has raised, get_stats has ended with
\* that error: no segment list and no statistics are returned.
C7_FetchFailureIsFatal ==
    failed_batches > 0 =>
        /\ fpc = "raised"
        /\ error = Some("ClientError")
        /\ seg_list = None
        /\ stats = None

\* a batch raised after an earlier batch had been fetched and merged
C7_Witness ==
    /\ failed_batches > 0
    /\ fetched # <<>>
    /\ segments # <<>>
    /\ fpc = "raised"

\* C8 as claimed: a record stored under a key is never replaced by a later
\* batch.
C8_LaterBatchNeverOverwrites ==
    [][\A i \in DOMAIN segments :
          /\ DictHas(segments', segments[i].key)
          /\ DictGet(segments', segments[i].key) = segments[i].value]_vars

\* C8 as amended: the record kept under a key is the last one fetched for
\* it, so the one of the latest batch that returned the key.
C8_LatestBatchWins ==
    LET pairs == AllPairs(fetched)
    IN  /\ \A i \in DOMAIN pairs : DictHas(segments, pairs[i].key)
        /\ \A i \in DOMAIN segments :
              LET k == segments[i].key
                  last == CHOOSE j \in DOMAIN pairs :
                              /\ pairs[j].key = k
                              /\ \A m \in DOMAIN pairs : pairs[m].key = k => m <= j
              IN  /\ \E j \in DOMAIN pairs : pairs[j].key = k
                  /\ segments[i].value = pairs[last].value

\* two batches returned the same key with different records, and the dict
\* holds the record of the later one
C8_Witness ==
    \E k \in {segments[i].key : i \in DOMAIN segments} :
        \E b1, b2 \in BatchesWith(k) :
            /\ b1 < b2
            /\ \A b \in BatchesWith(k) : b <= b2
            /\ DictGet(MergeBatch(<<>>, fetched[b1]), k)
                 # DictGet(MergeBatch(<<>>, fetched[b2]), k)
            /\ DictGet(segments, k) = DictGet(MergeBatch(<<>>, fetched[b2]), k)

\* C9: the merged dict holds exactly one record for each distinct
\* (trace id, segment id) fetched, and merging the fetched batches a second
\* time on top changes nothing.
C9_MergeDedupIdempotent ==
    LET fetched_ids ==
            UNION { UNION { { <<fetched[b][t].Id, fetched[b][t].Segments[i].Id>> :
                                i \in DOMAIN fetched[b][t].Segments } :
                            t \in DOMAIN fetched[b] } :
                    b \in DOMAIN fetched }
    IN  /\ \A i, j \in DOMAIN segments : segments[i].key = segments[j].key => i = j
        /\ {segments[i].key : i \in DOMAIN segments} = {p[1] \o p[2] : p \in fetched_ids}
        /\ Len(segments) = Cardinality(fetched_ids)
        /\ MergeAll(segments, fetched) = segments
        /\ MergeAll(<<>>, fetched \o fetched) = segments

\* every batch is fetched, two or more, and a key came more than once
C9_Witness ==
    /\ pos > Len(trace_ids)
    /\ Len(fetched) >= 2
    /\ Len(AllPairs(fetched)) > Len(segments)
    /\ Len(segments) >= 2

----------------------------------------------------------------------------
(* Properties of cli *)

\* C10: a run whose rate or duration string does not match its pattern
\* executes no step with an outside effect: no requirements, build, package
\* or deploy step, no dispatch, no statistics and no stack deletion.
C10_MalformedRejectedFirst ==
    ~(MatchRate(rate) /\ MatchDuration(duration)) =>
        /\ effects = <<>>
        /\ cpc \in {"parse_args", "rejected"}

\* the rate "30", which lacks its unit, beside a well-formed duration, is
\* rejected
C10_Witness ==
    /\ rate = <<"3", "0">>
    /\ MatchDuration(duration)
    /\ cpc = "rejected"
    /\ cli_error = Some("BadParameter")

\* the deploy step has succeeded: the stack exists
StackDeployed ==
    /\ \E i \in DOMAIN effects : effects[i] = "deploy"
    /\ ~(cpc = "failed" /\ effects[Len(effects)] = "deploy"
           /\ cli_error = Some("UnexpectedExit"))

\* C11: no run of cli ends, normally or by an exception, with the stack
\* deployed and its deletion never requested.
C11_DeployedStackIsDeleted ==
    (cpc \in {"done", "failed"} /\ StackDeployed) =>
        \E i \in DOMAIN effects : effects[i] = "delete_stack"

\* C19: a rate string that validate_rate accepted parses to a rate above 0,
\* and no run ends in the division 1.0 / rate.
C19_AcceptedRateIsPositive ==
    cpc \notin {"idle", "parse_args", "rejected"} =>
        /\ parse_rate(rate)[1] > 0
        /\ cli_error # Some("ZeroDivisionError")

----------------------------------------------------------------------------
(* Properties of the tokens *)

Min(a, b) == IF a < b THEN a ELSE b
Max(a, b) == IF a > b THEN a ELSE b

\* C14: while no Worker has taken a token and the queue is served, after K
\* completed ticks the queue
\* holds min(K, C) tokens and max(0, K - C) ticks were dropped: every tick
\* past the capacity is dropped, none is enqueued and none waits.
C14_DropsWithoutConsumers ==
    (popped = 0 /\ lost = 0 /\ tpc # "put") =>
        /\ Len(rate_queue.items) = Min(ticks, queue_size)
        /\ dropped = Max(0, ticks - queue_size)

\* no token was ever taken and two ticks past the capacity were dropped
C14_Witness ==
    /\ popped = 0
    /\ ticks >= queue_size + 2
    /\ dropped >= 2
    /\ tpc = "sleep"

\* C18 as stated: between two ticks, every tick so far is dropped, resident
\* in the queue or popped by a Worker.
C18_EveryTickDroppedResidentOrPopped ==
    tpc # "put" => ticks = dropped + Len(rate_queue.items) + popped

\* C18: every tick is accounted for once, as dropped, resident in the
\* queue, popped by a Worker, on its way between full() and put(0), or lost
\* because put(0) raised BrokenPipeError after the main process was done;
\* every popped token leads to at most one invoke call; so the invoke calls
\* never exceed the tokens enqueued.
C18_TokenConservation ==
    /\ ticks = dropped + enqueued + lost + (IF tpc = "put" THEN 1 ELSE 0)
    /\ enqueued = Len(rate_queue.items) + popped
    /\ popped = issued + Cardinality({w \in Workers : wpc[w] = "invoke"})
    /\ issued <= enqueued

\* one token led to an invoke call, one is resident in the queue and the
\* tick after them was lost to a BrokenPipeError
C18_Witness ==
    /\ issued > 0
    /\ Len(rate_queue.items) > 0
    /\ lost > 0
    /\ tpc = "done"

----------------------------------------------------------------------------
(* Properties of the statistics *)

\* get_stats has ended, by return or by an exception of the statistics step
StatsEnded == seg_list # None /\ fpc \in {"returned", "raised"}

\* the services that label a row with a positive duration
QualifyingServices(rows) ==
    {rows[i].service : i \in {j \in DOMAIN rows : rows[j].duration > 0}}

\* the number of rows labelled sv with a positive duration
QualifyingCount(rows, sv) ==
    Cardinality({i \in DOMAIN rows :
                    rows[i].service = sv /\ rows[i].duration > 0})

\* C12: when no segment has a positive duration (no segment at all, or
\* durations <= 0 only), get_stats returns a report with zero rows and does
\* not end in an error.
C12_NoPositiveSegmentGivesEmptyReport ==
    (StatsEnded /\ PositiveRows(seg_list[1]) = <<>>) =>
        /\ fpc = "returned"
        /\ error = None
        /\ stats # None
        /\ DOMAIN stats[1] = {}

\* C13: for every non-empty list of processed segments the report has a row
\* for service s iff some segment labelled s has duration > 0, and the row's
\* count is the number of such segments.
C13_RowsAreQualifyingServices ==
    (StatsEnded /\ seg_list[1] # <<>>) =>
        /\ stats # None
        /\ DOMAIN stats[1] = QualifyingServices(seg_list[1])
        /\ \A sv \in DOMAIN stats[1] :
              stats[1][sv].count = QualifyingCount(seg_list[1], sv)

----------------------------------------------------------------------------
(* Properties of the batches *)

RECURSIVE Concat(_)
Concat(ls) == IF ls = <<>> THEN <<>> ELSE Head(ls) \o Concat(Tail(ls))

\* C17: every batch passed to batch_get_traces holds between 1 and B ids;
\* the batches in order make up the list read so far, and the whole list,
\* each id in one batch, once the loop of get_segments is over.
C17_BatchesPartitionTraceIds ==
    /\ \A b \in DOMAIN requested :
          Len(requested[b]) >= 1 /\ Len(requested[b]) <= MAX_BATCH_SIZE
    /\ \E n \in 0..Len(trace_ids) :
          Concat(requested) = SubSeq(trace_ids, 1, n)
    /\ seg_list # None => Concat(requested) = trace_ids
    /\ trace_ids = <<>> => requested = <<>>

\* the loop is over after a full batch and a shorter last one
C17_Witness ==
    /\ seg_list # None
    /\ Len(requested) = 2
    /\ Len(requested[1]) = MAX_BATCH_SIZE
    /\ Len(requested[2]) < MAX_BATCH_SIZE

----------------------------------------------------------------------------
(* Properties of the processed records *)

\* the documents get_segments keeps, as loaded and in the order of the rows
KeptDocuments ==
    SelectSeq([i \in DOMAIN segments |->
                  JsonLoads(DictValues(segments)[i].Document)],
              HasBenchmarkMarker)

\* C16: every annotation key of a kept segment is a top-level field of its
\* processed record with the annotation's value, whatever the key's name,
\* and the record no longer carries the nested annotations mapping.
C16_AnnotationsBecomeFields ==
    seg_list # None =>
        \A i \in DOMAIN seg_list[1] :
            LET rec == seg_list[1][i]
                ann == KeptDocuments[i].annotations
            IN  /\ \A k \in DOMAIN ann : k \in DOMAIN rec /\ rec[k] = ann[k]
                /\ "annotations" \in DOMAIN rec =>
                      "annotations" \in DOMAIN ann

----------------------------------------------------------------------------
(* Properties of the wait for the duration *)

\* the duration in ticks
Expiry == wait_duration * TicksPerSecond

\* no step took longer than its nominal time
NoLag ==
    /\ \A i \in DOMAIN readings : readings[i] = (i - 1) * TicksPerSecond
    /\ signal_at # None => signal_at[1] = readings[Len(readings)]

----------------------------------------------------------------------------
(* Properties of the handlers *)

\* C20: a handler emits one segment per record of its event, each with the
\* record's trace_id, parent id and start_time and the annotations
\* scope = benchmark, service = the path.
C20_OneSegmentPerRecord ==
    hpc = "done" =>
        /\ Len(emitted) = Len(event.Records)
        /\ \A i \in DOMAIN emitted :
              emitted[i] = SegmentDocument(hservice, sent[i].trace_id,
                                           sent[i].id, sent[i].start_time)

====
